---- MODULE Spec2Model ----
(***************************************************************************)
(* Model of the visual regression engine of                                *)
(* src/test_case_generation/visual_regression.py (VisualRegressionEngine), *)
(* and of the compliance level rule of                                     *)
(* src/test_case_generation/compliance_validator.py.                       *)
(*                                                                         *)
(* Images are CanonSize x CanonSize grids of BGR pixels (the code's        *)
(* canonical 224 x 224, scaled down).  Scores are exact rationals          *)
(* [num, den]; the code's float thresholds are compared by cross           *)
(* multiplication.                                                         *)
(***************************************************************************)
EXTENDS Integers, Sequences, FiniteSets, TLC

\* ---------------------------------------------------------------- bounds
\* Side of the canonical image (224 in the code, line 247).
CanonSize == 10
\* Seconds the wall clock can advance past the start.
MaxClock == 2
\* Engine calls in one behaviour.
MaxOps == 3

NPix == CanonSize * CanonSize

\* ------------------------------------------------------------ arithmetic
Abs(x) == IF x < 0 THEN -x ELSE x

\* Sum of the values of a function on lo..hi, by halves.
RECURSIVE SumRange(_, _, _)
SumRange(f, lo, hi) ==
    IF lo > hi THEN 0
    ELSE IF lo = hi THEN f[lo]
    ELSE SumRange(f, lo, (lo + hi) \div 2) + SumRange(f, (lo + hi) \div 2 + 1, hi)
\* Sum of the values of a function on 1..Len.
SumSeq(s) == SumRange(s, 1, Len(s))

\* a/c < d/b for naturals a, d and positive b, c, without forming the
\* products (the histogram sums exceed 32 bits when multiplied).
RECURSIVE FracLess(_, _, _, _)
FracLess(a, c, d, b) ==
    LET q1 == a \div c
        q2 == d \div b
        r1 == a % c
        r2 == d % b
    IN  IF q1 # q2 THEN q1 < q2
        ELSE IF r2 = 0 THEN FALSE
        ELSE IF r1 = 0 THEN TRUE
        ELSE FracLess(b, r2, c, r1)

\* A score is the rational num/den, den > 0.
Ratio(n, d) == [num |-> n, den |-> d]
ScoreLess(s, n, d) == s.num * d < n * s.den
ScoreGreater(s, n, d) == s.num * d > n * s.den

\* ---------------------------------------------------------------- images
White == <<255, 255, 255>>
Black == <<0, 0, 0>>

\* Pixel index of column x, row y (0-based); coordinates outside the frame
\* are clamped (BORDER_REPLICATE).
Clamp(v) == IF v < 0 THEN 0 ELSE IF v >= CanonSize THEN CanonSize - 1 ELSE v
Idx(x, y) == Clamp(y) * CanonSize + Clamp(x) + 1
XOf(i) == (i - 1) % CanonSize
YOf(i) == (i - 1) \div CanonSize

Uniform(c) == [i \in 1..NPix |-> c]
\* A k x k block of colour fg with its top-left corner at (x0, y0) of a bg
\* frame.
WithBlockAt(bg, fg, x0, y0, k) ==
    [i \in 1..NPix |->
        IF /\ x0 <= XOf(i) /\ XOf(i) < x0 + k
           /\ y0 <= YOf(i) /\ YOf(i) < y0 + k
        THEN fg ELSE bg]
\* A bg frame whose first n pixels in raster order have colour fg.
FirstN(bg, fg, n) == [i \in 1..NPix |-> IF i <= n THEN fg ELSE bg]

\* cv2.cvtColor(.., COLOR_BGR2GRAY / COLOR_RGB2GRAY) on 8-bit pixels:
\* fixed-point luma, rounded.  A pixel is <<b, g, r>>.
cvtColor_gray(p) == (p[1] * 3735 + p[2] * 19235 + p[3] * 9798 + 16384) \div 32768

GrayImage(img) == [i \in 1..NPix |-> cvtColor_gray(img[i])] @@ <<>>

\* cv2.absdiff on colour pixels and on gray images.
absdiff_px(p, q) == <<Abs(p[1] - q[1]), Abs(p[2] - q[2]), Abs(p[3] - q[3])>>
absdiff(a, b) == [i \in 1..NPix |-> absdiff_px(a[i], b[i])] @@ <<>>
absdiff_gray(a, b) == [i \in 1..NPix |-> Abs(a[i] - b[i])] @@ <<>>

\* np.mean(x) / 255.0 of a gray image.
mean255(g) == Ratio(SumSeq(g), NPix * 255)
\* ------------------------------------------------------------- detectors
\* self.tolerance_thresholds (percent) and the severity cut-offs (percent).
tolerance_layout == 10
tolerance_color == 5
tolerance_content == 15
tolerance_element == 20
severity_cut_layout == 30
severity_cut_color == 10
severity_cut_content == 30
severity_cut_element == 40

FullFrame == <<0, 0, CanonSize, CanonSize>>

VisualDifference(type, conf, box, sev) ==
    [difference_type |-> type, confidence |-> conf, bounding_box |-> box,
     severity |-> sev]

\* cv2.Canny(gray, 50, 150): Sobel gradient (L1 magnitude, replicated
\* border), a pixel is an edge when its magnitude exceeds the high
\* threshold, or exceeds the low one next to such a pixel (hysteresis).
\* The edge map holds 255 at an edge and 0 elsewhere.
SobelX(g, x, y) ==
      (g[Idx(x + 1, y - 1)] + 2 * g[Idx(x + 1, y)] + g[Idx(x + 1, y + 1)])
    - (g[Idx(x - 1, y - 1)] + 2 * g[Idx(x - 1, y)] + g[Idx(x - 1, y + 1)])
SobelY(g, x, y) ==
      (g[Idx(x - 1, y + 1)] + 2 * g[Idx(x, y + 1)] + g[Idx(x + 1, y + 1)])
    - (g[Idx(x - 1, y - 1)] + 2 * g[Idx(x, y - 1)] + g[Idx(x + 1, y - 1)])
Magnitude(g, i) == Abs(SobelX(g, XOf(i), YOf(i))) + Abs(SobelY(g, XOf(i), YOf(i)))
\* The pixels adjacent to pixel i (8-neighbourhood, inside the frame).
Neighbours(i) ==
    {y * CanonSize + x + 1 :
        <<x, y>> \in {xy \in ((XOf(i) - 1)..(XOf(i) + 1)) \X ((YOf(i) - 1)..(YOf(i) + 1)) :
                         /\ xy[1] >= 0 /\ xy[1] < CanonSize
                         /\ xy[2] >= 0 /\ xy[2] < CanonSize
                         /\ xy # <<XOf(i), YOf(i)>>}}
Canny(g, low, high) ==
    LET mag == [i \in 1..NPix |-> Magnitude(g, i)] @@ <<>>
    IN  [i \in 1..NPix |->
            IF \/ mag[i] > high
               \/ /\ mag[i] > low
                  /\ \E j \in Neighbours(i) : mag[j] > high
            THEN 255 ELSE 0] @@ <<>>

\* _detect_layout_changes
detect_layout_changes(baseline, current) ==
    LET baseline_edges == Canny(GrayImage(baseline), 50, 150)
        current_edges == Canny(GrayImage(current), 50, 150)
        edge_score == mean255(absdiff_gray(baseline_edges, current_edges))
    IN  IF ScoreGreater(edge_score, tolerance_layout, 100)
        THEN <<VisualDifference("layout", edge_score, FullFrame,
                 IF ScoreGreater(edge_score, severity_cut_layout, 100)
                 THEN "high" ELSE "medium")>>
        ELSE <<>>
\* cv2.calcHist([img], [0, 1, 2], None, [8, 8, 8], [0, 256] * 3): the bin
\* of a pixel, and for two images the sum over all 512 bins of the
\* products of their bin counts.
HistBin(p) == <<p[3] \div 32, p[2] \div 32, p[1] \div 32>>
HistCount(a, bin) == Cardinality({i \in 1..NPix : HistBin(a[i]) = bin})
HistDot(a, b) ==
    LET bins == {HistBin(a[i]) : i \in 1..NPix}
        prod == [bin \in bins |-> HistCount(a, bin) * HistCount(b, bin)]
        RECURSIVE Sum(_)
        Sum(S) == IF S = {} THEN 0
                  ELSE LET x == CHOOSE x \in S : TRUE IN prod[x] + Sum(S \ {x})
    IN  Sum(bins)

\* cv2.compareHist(h1, h2, HISTCMP_CORREL) is
\* corr_num / sqrt(corr_den1 * corr_den2), all scaled by the number of
\* bins, and 1 when the denominator is 0.
HistBins == 512
compareHist_correl(a, b) ==
    LET n == HistBins * HistDot(a, b) - NPix * NPix
        d1 == HistBins * HistDot(a, a) - NPix * NPix
        d2 == HistBins * HistDot(b, b) - NPix * NPix
    IN  IF d1 = 0 \/ d2 = 0 THEN [corr_num |-> 1, corr_den1 |-> 1, corr_den2 |-> 1]
        ELSE [corr_num |-> n, corr_den1 |-> d1, corr_den2 |-> d2]

\* 1 - corr > pct / 100, for the correlation c: corr < (100 - pct) / 100,
\* compared as (100 n) / ((100 - pct) d1) < ((100 - pct) d2) / (100 n).
OneMinusCorrGreater(c, pct) ==
    \/ c.corr_num <= 0
    \/ FracLess(100 * c.corr_num, (100 - pct) * c.corr_den1,
                (100 - pct) * c.corr_den2, 100 * c.corr_num)

\* The colour detector grading as the other detectors do (high above the
\* cut-off, medium below).
detect_color_changes_high(baseline, current) ==
    LET color_score == compareHist_correl(baseline, current)
    IN  IF OneMinusCorrGreater(color_score, tolerance_color)
        THEN <<VisualDifference("color", [one_minus |-> color_score], FullFrame,
                 IF OneMinusCorrGreater(color_score, severity_cut_color)
                 THEN "high" ELSE "medium")>>
        ELSE <<>>

\* _detect_color_changes; the confidence 1 - corr is kept as the correlation
\* it is computed from.
detect_color_changes(baseline, current) ==
    LET color_score == compareHist_correl(baseline, current)
    IN  IF OneMinusCorrGreater(color_score, tolerance_color)
        THEN <<VisualDifference("color", [one_minus |-> color_score], FullFrame,
                 IF OneMinusCorrGreater(color_score, severity_cut_color)
                 THEN "medium" ELSE "low")>>
        ELSE <<>>
\* cv2.findContours(diff, RETR_EXTERNAL, CHAIN_APPROX_SIMPLE): one contour
\* per 8-connected component of the non-zero pixels, here the component's
\* pixel set.
SetMin(S) == CHOOSE m \in S : \A k \in S : m <= k
SetMax(S) == CHOOSE m \in S : \A k \in S : m >= k
RECURSIVE Grow(_, _)
Grow(mask, S) ==
    LET S2 == S \cup {j \in mask \ S : Neighbours(j) \cap S # {}}
    IN  IF S2 = S THEN S ELSE Grow(mask, S2)
RECURSIVE Components(_)
Components(mask) ==
    IF mask = {} THEN {}
    ELSE LET c == Grow(mask, {SetMin(mask)})
         IN  {c} \cup Components(mask \ c)
findContours(diff) == Components({i \in 1..NPix : diff[i] # 0})
\* The bounding rectangle given by its two corners (x, y, x2, y2).
boundingRect_corners(c) ==
    LET xs == {XOf(i) : i \in c}
        ys == {YOf(i) : i \in c}
    IN  <<SetMin(xs), SetMin(ys), SetMax(xs), SetMax(ys)>>
\* cv2.boundingRect(contour): x, y, width, height.
boundingRect(c) ==
    LET xs == {XOf(i) : i \in c}
        ys == {YOf(i) : i \in c}
    IN  <<SetMin(xs), SetMin(ys), SetMax(xs) - SetMin(xs) + 1, SetMax(ys) - SetMin(ys) + 1>>
\* cv2.contourArea(contour): the area enclosed by the polygon through the
\* outer pixel centres (that of the bounding rectangle for a filled block,
\* 0 for a single pixel or a line).
contourArea(c) == (boundingRect(c)[3] - 1) * (boundingRect(c)[4] - 1)
\* max(contours, key=cv2.contourArea): the first contour of maximal area.
MaxContour(cs) ==
    LET best == {c \in cs : \A o \in cs : contourArea(o) <= contourArea(c)}
    IN  CHOOSE c \in best : \A o \in best : SetMin(c) <= SetMin(o)

\* The content detector reporting as soon as any pixel differs (score > 0).
detect_content_changes_any(baseline, current) ==
    LET diff == absdiff_gray(GrayImage(baseline), GrayImage(current))
        content_score == mean255(diff)
        contours == findContours(diff)
        bounding_box == IF contours # {} THEN boundingRect(MaxContour(contours))
                        ELSE FullFrame
    IN  IF ScoreGreater(content_score, 0, 100)
        THEN <<VisualDifference("content", content_score, bounding_box,
                 IF ScoreGreater(content_score, severity_cut_content, 100)
                 THEN "high" ELSE "medium")>>
        ELSE <<>>

\* The content detector reporting a score equal to its threshold (>= for >).
detect_content_changes_inclusive(baseline, current) ==
    LET diff == absdiff_gray(GrayImage(baseline), GrayImage(current))
        content_score == mean255(diff)
        contours == findContours(diff)
        bounding_box == IF contours # {} THEN boundingRect(MaxContour(contours))
                        ELSE FullFrame
    IN  IF ~ScoreLess(content_score, tolerance_content, 100)
        THEN <<VisualDifference("content", content_score, bounding_box,
                 IF ScoreGreater(content_score, severity_cut_content, 100)
                 THEN "high" ELSE "medium")>>
        ELSE <<>>

\* _detect_content_changes
detect_content_changes(baseline, current) ==
    LET diff == absdiff_gray(GrayImage(baseline), GrayImage(current))
        content_score == mean255(diff)
        contours == findContours(diff)
        bounding_box == IF contours # {} THEN boundingRect(MaxContour(contours))
                        ELSE FullFrame
    IN  IF ScoreGreater(content_score, tolerance_content, 100)
        THEN <<VisualDifference("content", content_score, bounding_box,
                 IF ScoreGreater(content_score, severity_cut_content, 100)
                 THEN "high" ELSE "medium")>>
        ELSE <<>>
\* cv2.ORB_create().detectAndCompute(gray, None).  Key points are the
\* pixels that more than half of their neighbours exceed, or fall below,
\* by the FAST threshold; a descriptor holds one intensity test per
\* neighbour offset, each standing for 32 of ORB's 256 bits.
\* The result is the sequence of descriptors in raster order, and None
\* when there is no key point.
None == <<>>
FastThreshold == 20
Offsets == <<<<-1, -1>>, <<0, -1>>, <<1, -1>>, <<-1, 0>>, <<1, 0>>, <<-1, 1>>, <<0, 1>>, <<1, 1>>>>
IsKeyPoint(g, i) ==
    LET ring == Neighbours(i)
    IN  \/ 2 * Cardinality({j \in ring : g[j] > g[i] + FastThreshold})
             > Cardinality(ring)
        \/ 2 * Cardinality({j \in ring : g[j] < g[i] - FastThreshold})
             > Cardinality(ring)
Descriptor(g, i) ==
    [k \in 1..8 |-> g[Idx(XOf(i) + Offsets[k][1], YOf(i) + Offsets[k][2])] < g[i]]
KeyPoints(g) == {i \in 1..NPix : IsKeyPoint(g, i)}
\* The n-th element of a set of numbers in increasing order.
Nth(S, n) == CHOOSE i \in S : Cardinality({j \in S : j < i}) = n - 1
detectAndCompute(g) ==
    LET kp == KeyPoints(g)
    IN  IF kp = {} THEN None
        ELSE [n \in 1..Cardinality(kp) |-> Descriptor(g, Nth(kp, n))] @@ <<>>

\* cv2.NORM_HAMMING between two descriptors.
Hamming(d, e) == 32 * Cardinality({k \in 1..8 : d[k] # e[k]})
\* Index of the first descriptor of des nearest to d.
Nearest(d, des) ==
    CHOOSE j \in 1..Len(des) :
        /\ \A k \in 1..Len(des) : Hamming(d, des[j]) <= Hamming(d, des[k])
        /\ \A k \in 1..(j - 1) : Hamming(d, des[k]) > Hamming(d, des[j])
\* cv2.BFMatcher(NORM_HAMMING, crossCheck=True).match(des1, des2): the
\* distances of the mutually nearest pairs, in query order.
BFMatch(des1, des2) ==
    LET train == [i \in 1..Len(des1) |-> Nearest(des1[i], des2)] @@ <<>>
        query == [i \in 1..Len(des1) |-> i]
        matched == SelectSeq(query, LAMBDA i : Nearest(des2[train[i]], des1) = i)
    IN  [n \in 1..Len(matched) |->
            Hamming(des1[matched[n]], des2[train[matched[n]]])]

GoodDistance == 50

\* The element detector scoring the match ratio itself (the 1 - forgotten).
detect_element_changes_ratio(baseline, current) ==
    LET des1 == detectAndCompute(GrayImage(baseline))
        des2 == detectAndCompute(GrayImage(current))
    IN  IF des1 # None /\ des2 # None
        THEN LET matches == BFMatch(des1, des2)
                 good_matches == SelectSeq(matches, LAMBDA m : m < GoodDistance)
                 element_score ==
                     IF matches # <<>> THEN Ratio(Len(good_matches), Len(matches))
                     ELSE Ratio(0, 1)
             IN  IF ScoreGreater(element_score, tolerance_element, 100)
                 THEN <<VisualDifference("element", element_score, FullFrame,
                          IF ScoreGreater(element_score, severity_cut_element, 100)
                          THEN "high" ELSE "medium")>>
                 ELSE <<>>
        ELSE <<>>

\* The element detector grading a score above the cut-off as critical.
detect_element_changes_critical(baseline, current) ==
    LET des1 == detectAndCompute(GrayImage(baseline))
        des2 == detectAndCompute(GrayImage(current))
    IN  IF des1 # None /\ des2 # None
        THEN LET matches == BFMatch(des1, des2)
                 good_matches == SelectSeq(matches, LAMBDA m : m < GoodDistance)
                 element_score ==
                     IF matches # <<>>
                     THEN Ratio(Len(matches) - Len(good_matches), Len(matches))
                     ELSE Ratio(1, 1)
             IN  IF ScoreGreater(element_score, tolerance_element, 100)
                 THEN <<VisualDifference("element", element_score, FullFrame,
                          IF ScoreGreater(element_score, severity_cut_element, 100)
                          THEN "critical" ELSE "medium")>>
                 ELSE <<>>
        ELSE <<>>

\* _detect_element_changes
detect_element_changes(baseline, current) ==
    LET des1 == detectAndCompute(GrayImage(baseline))
        des2 == detectAndCompute(GrayImage(current))
    IN  IF des1 # None /\ des2 # None
        THEN LET matches == BFMatch(des1, des2)
                 good_matches == SelectSeq(matches, LAMBDA m : m < GoodDistance)
                 element_score ==
                     IF matches # <<>>
                     THEN Ratio(Len(matches) - Len(good_matches), Len(matches))
                     ELSE Ratio(1, 1)
             IN  IF ScoreGreater(element_score, tolerance_element, 100)
                 THEN <<VisualDifference("element", element_score, FullFrame,
                          IF ScoreGreater(element_score, severity_cut_element, 100)
                          THEN "high" ELSE "medium")>>
                 ELSE <<>>
        ELSE <<>>

\* The detectors with the content detector consulted before the colour
\* detector.
detect_differences_content_first(baseline_img, current_img) ==
       detect_layout_changes(baseline_img, current_img)
    \o detect_content_changes(baseline_img, current_img)
    \o detect_color_changes(baseline_img, current_img)
    \o detect_element_changes(baseline_img, current_img)

\* _detect_differences: the detectors in evaluation order, each adding at
\* most one difference.
detect_differences(baseline_img, current_img) ==
       detect_layout_changes(baseline_img, current_img)
    \o detect_color_changes(baseline_img, current_img)
    \o detect_content_changes(baseline_img, current_img)
    \o detect_element_changes(baseline_img, current_img)
\* ----------------------------------------------------------- image files
\* What a file holds: a decodable image of side w (1 or CanonSize), bytes
\* that are no image, or nothing because the file does not exist.
\* A decodable file holds a picture in encoded form: a block of colour fg
\* and side k at (x0, y0) of a frame of colour bg, a frame whose first k
\* pixels have colour fg, a block with one more pixel of colour fg off
\* its lower right corner, or a single pixel.  Pixels is the pixel array a
\* decoder makes of it.
Picture(shape, bg, fg, x0, y0, k) ==
    [shape |-> shape, bg |-> bg, fg |-> fg, x0 |-> x0, y0 |-> y0, k |-> k]
Solid(c) == Picture("block", c, c, 0, 0, 0)
BlockAt(bg, fg, x0, y0, k) ==
    IF k = 0 \/ bg = fg THEN Solid(bg) ELSE Picture("block", bg, fg, x0, y0, k)
Block(bg, fg, k) == BlockAt(bg, fg, 0, 0, k)
Filled(bg, fg, n) ==
    IF n = 0 \/ bg = fg THEN Solid(bg) ELSE Picture("first", bg, fg, 0, 0, n)
Pixel(c) == Picture("pixel", c, c, 0, 0, 1)
Dotted(bg, fg, x0, y0, k) == Picture("dotted", bg, fg, x0, y0, k)
Pixels(picture) ==
    CASE picture.shape = "block" ->
             WithBlockAt(picture.bg, picture.fg, picture.x0, picture.y0, picture.k)
      [] picture.shape = "first" -> FirstN(picture.bg, picture.fg, picture.k)
      [] picture.shape = "pixel" -> <<picture.fg>>
      [] picture.shape = "dotted" ->
             [WithBlockAt(picture.bg, picture.fg, picture.x0, picture.y0, picture.k)
                 EXCEPT ![Idx(picture.x0 + picture.k, picture.y0 + picture.k)] =
                            picture.fg]
ImageFile(w, picture) == [kind |-> "image", w |-> w, px |-> picture]
Corrupt == [kind |-> "corrupt"]
Absent == [kind |-> "absent"]
NoImage == [kind |-> "None"]
\* A file being written by write_bytes: truncated when opened, then holding
\* a prefix of data (written counts the chunks so far).
Partial(data, written) == [kind |-> "partial", of |-> data, written |-> written]
Gray128 == <<128, 128, 128>>
\* What a decoder that tolerates a truncated file makes of one: the first
\* pixel, and filler after it.
Damaged(data) ==
    IF data.kind = "image"
    THEN ImageFile(data.w, IF data.w = 1 THEN data.px
                           ELSE Filled(Gray128, Pixels(data.px)[1], 1))
    ELSE Corrupt
\* What reading a file can deliver: its content; for a file being written,
\* bytes no decoder accepts or, once a prefix is there, a damaged image.
ReadOutcomes(content) ==
    IF content.kind # "partial" THEN {content}
    ELSE IF content.written = 0 THEN {Corrupt}
    ELSE {Corrupt, Damaged(content.of)}

\* cv2.imread(path): the decoded image, or None when the file is missing
\* or cannot be decoded.
imread(content) ==
    IF content.kind = "image"
    THEN [kind |-> "image", w |-> content.w, px |-> Pixels(content.px)]
    ELSE NoImage

\* cv2.resize(img, (224, 224)): bilinear; a one-pixel image becomes a
\* uniform frame and a canonical-size image is unchanged.
resize(img) == IF img.w = CanonSize THEN img.px ELSE Uniform(img.px[1])

ThresholdPass == 5
ThresholdWarning == 15

\* The comparison with a failure to load reported as no difference
\* (return 0.0, []).
compare_images_pass_on_error(baseline_file, current_file, tolerance) ==
    LET baseline_img == imread(baseline_file)
        current_img == imread(current_file)
    IN  IF baseline_img = NoImage \/ current_img = NoImage
        THEN [difference_score |-> Ratio(0, NPix * 255), differences |-> <<>>]
        ELSE [difference_score |-> mean255(GrayImage(absdiff(resize(baseline_img),
                                                             resize(current_img)))),
              differences |-> detect_differences(resize(baseline_img),
                                                 resize(current_img))]

\* The comparison taking the score from the difference of the gray images
\* (cvtColor before absdiff) instead of the gray of the colour difference.
compare_images_gray_first(baseline_file, current_file, tolerance) ==
    LET baseline_img == imread(baseline_file)
        current_img == imread(current_file)
    IN  IF baseline_img = NoImage \/ current_img = NoImage
        THEN [difference_score |-> Ratio(NPix * 255, NPix * 255), differences |-> <<>>]
        ELSE LET b == resize(baseline_img)
                 c == resize(current_img)
                 diff_gray == absdiff_gray(GrayImage(b), GrayImage(c))
             IN  [difference_score |-> mean255(diff_gray),
                  differences |-> detect_differences(b, c)]

\* The comparison taking a score within the case's tolerance for no
\* difference at all.
compare_images_within_tolerance(baseline_file, current_file, tolerance) ==
    LET baseline_img == imread(baseline_file)
        current_img == imread(current_file)
    IN  IF baseline_img = NoImage \/ current_img = NoImage
        THEN [difference_score |-> Ratio(NPix * 255, NPix * 255), differences |-> <<>>]
        ELSE LET b == resize(baseline_img)
                 c == resize(current_img)
                 diff_gray == GrayImage(absdiff(b, c))
             IN  IF ScoreGreater(mean255(diff_gray), tolerance, 100)
                 THEN [difference_score |-> mean255(diff_gray),
                       differences |-> detect_differences(b, c)]
                 ELSE [difference_score |-> Ratio(0, NPix * 255),
                       differences |-> <<>>]

\* The comparison taking the score from the blue channel of the difference
\* image alone (diff[:, :, 0] for the cvtColor of diff).
compare_images_blue_channel(baseline_file, current_file, tolerance) ==
    LET baseline_img == imread(baseline_file)
        current_img == imread(current_file)
    IN  IF baseline_img = NoImage \/ current_img = NoImage
        THEN [difference_score |-> Ratio(NPix * 255, NPix * 255), differences |-> <<>>]
        ELSE LET b == resize(baseline_img)
                 c == resize(current_img)
                 diff == absdiff(b, c)
                 diff_gray == [i \in 1..NPix |-> diff[i][1]]
             IN  [difference_score |-> mean255(diff_gray),
                  differences |-> detect_differences(b, c)]

\* _compare_images: (difference_score, differences); (1.0, []) when either
\* image fails to load.  The tolerance argument is not read.
compare_images(baseline_file, current_file, tolerance) ==
    LET baseline_img == imread(baseline_file)
        current_img == imread(current_file)
    IN  IF baseline_img = NoImage \/ current_img = NoImage
        THEN [difference_score |-> Ratio(NPix * 255, NPix * 255), differences |-> <<>>]
        ELSE LET b == resize(baseline_img)
                 c == resize(current_img)
                 diff_gray == GrayImage(absdiff(b, c))
             IN  [difference_score |-> mean255(diff_gray),
                  differences |-> detect_differences(b, c)]

\* The rule with the upper boundary taken as exclusive (<= for <).
determine_test_status_inclusive(difference_score, differences) ==
    IF ScoreLess(difference_score, ThresholdPass, 100) THEN "pass"
    ELSE IF ~ScoreGreater(difference_score, ThresholdWarning, 100)
    THEN IF \E k \in 1..Len(differences) : differences[k].severity = "critical"
         THEN "fail" ELSE "warning"
    ELSE "fail"

\* _determine_test_status
determine_test_status(difference_score, differences) ==
    IF ScoreLess(difference_score, ThresholdPass, 100) THEN "pass"
    ELSE IF ScoreLess(difference_score, ThresholdWarning, 100)
    THEN IF \E k \in 1..Len(differences) : differences[k].severity = "critical"
         THEN "fail" ELSE "warning"
    ELSE "fail"
\* ----------------------------------------------------------------- state
VARIABLES
    clock,    \* datetime.now(), in whole seconds since the start
    images,   \* image files: path -> content
    json,     \* JSON files of baseline_dir: file name -> data
    held,     \* the VisualTestCase objects the callers hold
    last,     \* the last call: its arguments and its return value or exception
    history,  \* the comparisons made by the runs so far, in order
    ops,      \* engine calls made so far
    inflight, \* an update_baseline that is writing the baseline file
    probe     \* argument and result of a direct call of a pure function

vars == <<clock, images, json, held, last, history, ops, inflight, probe>>

\* Inputs of the calls.
CaseIds == {"TC-1", "TC-2"}
Selectors == {"None", "#submit"}
Descriptions == {"login button"}
LightGray == <<230, 230, 230>>
\* What the application under test can show when a screenshot is taken.
Screens == {ImageFile(CanonSize, Solid(White)),
            ImageFile(CanonSize, Solid(LightGray)),
            ImageFile(CanonSize, Block(White, Black, CanonSize \div 2))}

\* The image a caller offers as a new baseline: a white frame with a black
\* square of a fifth of its side, a tenth of the side from the top-left
\* corner (a 10 x 10 square at (5, 5) of a 50 x 50 image).
NewBaseline ==
    ImageFile(CanonSize, BlockAt(White, Black, CanonSize \div 10,
                                 CanonSize \div 10, CanonSize \div 5))

\* Paths of image files: the screenshots capture_screenshot can write, and
\* the files a caller can pass to update_baseline.
ScreenshotPath(element_selector, timestamp) ==
    [prefix |-> IF element_selector # "None" THEN "element_" ELSE "fullpage_",
     timestamp |-> timestamp]
ScreenshotPaths == {ScreenshotPath(sel, t) : sel \in Selectors, t \in 0..MaxClock}
CallerPaths == {[prefix |-> "new_ok", timestamp |-> 0],
                [prefix |-> "new_corrupt", timestamp |-> 0],
                [prefix |-> "new_missing", timestamp |-> 0]}
Paths == ScreenshotPaths \cup CallerPaths

\* Names of JSON files, as the pieces the code joins.
CaseFileName(test_case_id) == <<test_case_id, ".json">>
ResultFileName(test_case_id, timestamp) ==
    <<test_case_id, "_result_", timestamp, ".json">>
\* str.endswith for a name made of pieces.
endswith(name, suffix) == name[Len(name)] = suffix

NoPath == [prefix |-> "None", timestamp |-> 0]

\* What a call leaves in last.
NoCall == [op |-> "none", id |-> "", outcome |-> "none", value |-> <<>>]
Returned(op, id, value) == [op |-> op, id |-> id, outcome |-> "returned", value |-> value]
Raised(op, id, message) == [op |-> op, id |-> id, outcome |-> "raised", value |-> message]
\* The same with the image the driver delivered to the call (NoImage: none).
WithShot(call, shot) ==
    [op |-> call.op, id |-> call.id, outcome |-> call.outcome, value |-> call.value,
     shot |-> shot]

Idle == [pc |-> "idle"]

\* The state after VisualRegressionEngine() on an empty baseline_dir, with
\* the files the callers bring.
InitEngine ==
    /\ clock = 0
    /\ images = [p \in Paths |->
                   IF p.prefix = "new_ok" THEN NewBaseline
                   ELSE IF p.prefix = "new_corrupt" THEN Corrupt
                   ELSE Absent]
    /\ json = <<>>
    /\ held = {}
    /\ last = NoCall
    /\ history = <<>>
    /\ ops = 0
    /\ inflight = Idle

Init == InitEngine /\ probe = NoCall

\* json.dump into the file of that name, created or overwritten.
WriteJson(files, name, data) == (name :> data) @@ files

\* The clock reaches the next second.
Tick ==
    /\ clock < MaxClock
    /\ clock' = clock + 1
    /\ UNCHANGED <<images, json, held, last, history, ops, inflight, probe>>

\* capture_screenshot: the path written, or None after a timeout or any
\* other exception.  shot is the image the driver delivers, or NoImage when
\* it fails.
capture_path(element_selector, shot) ==
    IF shot = NoImage THEN NoPath ELSE ScreenshotPath(element_selector, clock)
capture_files(files, element_selector, shot) ==
    IF shot = NoImage THEN files
    ELSE [files EXCEPT ![ScreenshotPath(element_selector, clock)] = shot]

\* _save_visual_test_case
save_visual_test_case(files, visual_test_case) ==
    WriteJson(files, CaseFileName(visual_test_case.test_case_id), visual_test_case)

DefaultTolerance == 10

\* The creation saving the metadata before it looks at the capture.
create_visual_test_case_save_first(test_case_id, element_selector, description, shot) ==
    LET baseline_path == capture_path(element_selector, shot)
        visual_test_case ==
            [test_case_id |-> test_case_id,
             element_selector |-> element_selector,
             element_type |-> "generic",
             baseline_image_path |-> baseline_path,
             tolerance |-> DefaultTolerance,
             description |-> description,
             created_at |-> <<clock, ops>>]
    IN  /\ ops < MaxOps
        /\ ops' = ops + 1
        /\ images' = capture_files(images, element_selector, shot)
        /\ json' = save_visual_test_case(json, visual_test_case)
        /\ IF shot = NoImage
           THEN /\ last' = WithShot(Raised("create", test_case_id,
                                   "Failed to capture baseline screenshot"), shot)
                /\ UNCHANGED held
           ELSE /\ held' = held \cup {visual_test_case}
                /\ last' = WithShot(Returned("create", test_case_id,
                                            visual_test_case), shot)
        /\ UNCHANGED <<clock, history, inflight, probe>>

\* create_visual_test_case
create_visual_test_case(test_case_id, element_selector, description, shot) ==
    LET baseline_path == capture_path(element_selector, shot)
        visual_test_case ==
            [test_case_id |-> test_case_id,
             element_selector |-> element_selector,
             element_type |-> "generic",
             baseline_image_path |-> baseline_path,
             tolerance |-> DefaultTolerance,
             description |-> description,
             created_at |-> <<clock, ops>>]
    IN  /\ ops < MaxOps
        /\ ops' = ops + 1
        /\ images' = capture_files(images, element_selector, shot)
        /\ IF shot = NoImage
           THEN /\ last' = WithShot(Raised("create", test_case_id,
                                   "Failed to capture baseline screenshot"), shot)
                /\ UNCHANGED <<json, held>>
           ELSE /\ json' = save_visual_test_case(json, visual_test_case)
                /\ held' = held \cup {visual_test_case}
                /\ last' = WithShot(Returned("create", test_case_id,
                                            visual_test_case), shot)
        /\ UNCHANGED <<clock, history, inflight, probe>>
\* Every content an image file of the model can have, and _compare_images
\* tabulated over them (evaluated once).
Contents == Screens \cup {NewBaseline, Damaged(NewBaseline), Corrupt, Absent}
compare_images_table ==
    [x \in Contents \X Contents \X {DefaultTolerance} |->
        compare_images(x[1], x[2], x[3])] @@ <<>>

\* _save_visual_test_result
save_visual_test_result(files, result) ==
    WriteJson(files, ResultFileName(result.test_case_id, clock), result)

\* The run comparing against the image the previous run captured instead
\* of the baseline.
run_compare_stale(visual_test_case, current_path, baseline_file, current_file) ==
    LET compared == compare_images_table[
                        <<IF history # <<>> THEN history[Len(history)].current
                          ELSE baseline_file,
                          current_file, visual_test_case.tolerance>>]
    IN  [test_case_id |-> visual_test_case.test_case_id,
         baseline_image_path |-> visual_test_case.baseline_image_path,
         current_image_path |-> current_path,
         difference_score |-> compared.difference_score,
         differences |-> compared.differences,
         status |-> determine_test_status(compared.difference_score,
                                          compared.differences),
         generated_at |-> <<clock, ops>>]

\* run_visual_test after a successful capture; baseline_file and
\* current_file are what cv2.imread finds in the two files.
run_compare(visual_test_case, current_path, baseline_file, current_file) ==
    LET compared == compare_images_table[<<baseline_file, current_file,
                                           visual_test_case.tolerance>>]
    IN  [test_case_id |-> visual_test_case.test_case_id,
         baseline_image_path |-> visual_test_case.baseline_image_path,
         current_image_path |-> current_path,
         difference_score |-> compared.difference_score,
         differences |-> compared.differences,
         status |-> determine_test_status(compared.difference_score,
                                          compared.differences),
         generated_at |-> <<clock, ops>>]

\* The run raising BaselineMissing when the baseline file cannot be loaded.
run_visual_test_strict(visual_test_case, shot) ==
    LET current_path == capture_path(visual_test_case.element_selector, shot)
        captured == capture_files(images, visual_test_case.element_selector, shot)
    IN  /\ ops < MaxOps
        /\ ops' = ops + 1
        /\ images' = captured
        /\ IF shot = NoImage
           THEN /\ last' = WithShot(Raised("run", visual_test_case.test_case_id,
                                   "Failed to capture current screenshot"), shot)
                /\ UNCHANGED <<json, history>>
           ELSE IF captured[visual_test_case.baseline_image_path].kind # "image"
           THEN /\ last' = WithShot(Raised("run", visual_test_case.test_case_id,
                                   "BaselineMissing"), shot)
                /\ UNCHANGED <<json, history>>
           ELSE \E baseline_file \in ReadOutcomes(captured[visual_test_case.baseline_image_path]),
                   current_file \in ReadOutcomes(captured[current_path]) :
                LET result == run_compare(visual_test_case, current_path,
                                          baseline_file, current_file)
                IN  /\ json' = save_visual_test_result(json, result)
                    /\ history' = Append(history,
                           [stored |-> captured[visual_test_case.baseline_image_path],
                            baseline |-> baseline_file, current |-> current_file,
                            tolerance |-> visual_test_case.tolerance,
                            result |-> result])
                    /\ last' = WithShot(Returned("run", visual_test_case.test_case_id,
                                                result), shot)
        /\ UNCHANGED <<clock, held, inflight, probe>>

\* run_visual_test
run_visual_test(visual_test_case, shot) ==
    LET current_path == capture_path(visual_test_case.element_selector, shot)
        captured == capture_files(images, visual_test_case.element_selector, shot)
    IN  /\ ops < MaxOps
        /\ ops' = ops + 1
        /\ images' = captured
        /\ IF shot = NoImage
           THEN /\ last' = WithShot(Raised("run", visual_test_case.test_case_id,
                                   "Failed to capture current screenshot"), shot)
                /\ UNCHANGED <<json, history>>
           ELSE \E baseline_file \in ReadOutcomes(captured[visual_test_case.baseline_image_path]),
                   current_file \in ReadOutcomes(captured[current_path]) :
                LET result == run_compare(visual_test_case, current_path,
                                          baseline_file, current_file)
                IN  /\ json' = save_visual_test_result(json, result)
                    /\ history' = Append(history,
                           [stored |-> captured[visual_test_case.baseline_image_path],
                            baseline |-> baseline_file, current |-> current_file,
                            tolerance |-> visual_test_case.tolerance,
                            result |-> result])
                    /\ last' = WithShot(Returned("run", visual_test_case.test_case_id,
                                                result), shot)
        /\ UNCHANGED <<clock, held, inflight, probe>>

\* The update pointing the case at the new file instead of copying the
\* file's content behind the case's reference.
update_baseline_repoint(visual_test_case, new_baseline_path) ==
    /\ ops < MaxOps
    /\ ops' = ops + 1
    /\ IF images[new_baseline_path] # Absent
       THEN /\ json' = save_visual_test_case(json,
                           [visual_test_case EXCEPT
                               !.baseline_image_path = new_baseline_path])
            /\ last' = Returned("update", visual_test_case.test_case_id, <<>>)
            /\ UNCHANGED images
       ELSE /\ last' = Raised("update", visual_test_case.test_case_id,
                               "New baseline image not found")
            /\ UNCHANGED <<images, json>>
    /\ UNCHANGED <<clock, held, history, inflight, probe>>

\* update_baseline
update_baseline(visual_test_case, new_baseline_path) ==
    /\ ops < MaxOps
    /\ ops' = ops + 1
    /\ IF images[new_baseline_path] # Absent
       THEN /\ images' = [images EXCEPT ![visual_test_case.baseline_image_path] =
                                           images[new_baseline_path]]
            /\ json' = save_visual_test_case(json, visual_test_case)
            /\ last' = Returned("update", visual_test_case.test_case_id, <<>>)
       ELSE /\ last' = Raised("update", visual_test_case.test_case_id,
                               "New baseline image not found")
            /\ UNCHANGED <<images, json>>
    /\ UNCHANGED <<clock, held, history, inflight, probe>>

\* get_visual_test_statistics: the dictionary returned.
CountStatus(files, names, status) ==
    Cardinality({n \in names : files[n].status = status})
\* The statistics dividing without the guard: the ZeroDivisionError ends in
\* the handler's {'error': ...}.
visual_test_statistics_unguarded(files) ==
    LET test_case_files == DOMAIN files
        test_cases == {f \in test_case_files : ~endswith(f, "_result_")}
        result_files == {f \in test_case_files : endswith(f, "_result_")}
        pass_count == Cardinality({n \in result_files : files[n].status = "pass"})
        fail_count == Cardinality({n \in result_files : files[n].status = "fail"})
        warning_count == Cardinality({n \in result_files : files[n].status = "warning"})
        total_tests == pass_count + fail_count + warning_count
    IN  IF total_tests = 0
        THEN [kind |-> "error", error |-> "division by zero"]
        ELSE [kind |-> "statistics",
              total_test_cases |-> Cardinality(test_cases),
              total_results |-> total_tests,
              pass_count |-> pass_count,
              fail_count |-> fail_count,
              warning_count |-> warning_count,
              pass_rate |-> Ratio(pass_count, total_tests)]

visual_test_statistics(files) ==
    LET test_case_files == DOMAIN files
        test_cases == {f \in test_case_files : ~endswith(f, "_result_")}
        result_files == {f \in test_case_files : endswith(f, "_result_")}
        pass_count == CountStatus(files, result_files, "pass")
        fail_count == CountStatus(files, result_files, "fail")
        warning_count == CountStatus(files, result_files, "warning")
        total_tests == pass_count + fail_count + warning_count
    IN  [kind |-> "statistics",
         total_test_cases |-> Cardinality(test_cases),
         total_results |-> total_tests,
         pass_count |-> pass_count,
         fail_count |-> fail_count,
         warning_count |-> warning_count,
         pass_rate |-> IF total_tests > 0 THEN Ratio(pass_count, total_tests)
                       ELSE Ratio(0, 1)]
\* get_visual_test_statistics
get_visual_test_statistics ==
    /\ ops < MaxOps
    /\ ops' = ops + 1
    /\ last' = Returned("statistics", "", visual_test_statistics(json))
    /\ UNCHANGED <<clock, images, json, held, history, inflight, probe>>

\* The image store loses the baseline file of a case (a data-integrity
\* fault outside the engine).
StorageFault(visual_test_case) ==
    /\ ops < MaxOps
    /\ ops' = ops + 1
    /\ images[visual_test_case.baseline_image_path] # Absent
    /\ images' = [images EXCEPT ![visual_test_case.baseline_image_path] = Absent]
    /\ last' = NoCall
    /\ UNCHANGED <<clock, json, held, history, inflight, probe>>

Next ==
    \/ Tick
    \/ \E id \in CaseIds, sel \in Selectors, d \in Descriptions,
          shot \in Screens \cup {NoImage} :
            create_visual_test_case(id, sel, d, shot)
    \/ \E c \in held, shot \in Screens \cup {NoImage} : run_visual_test(c, shot)
    \/ \E c \in held, p \in CallerPaths : update_baseline(c, p)
    \/ get_visual_test_statistics
    \/ \E c \in held : StorageFault(c)

Spec == Init /\ [][Next]_vars
\* ------------------------------------------- update_baseline, step by step
\* The same call as the file system sees it when other calls run meanwhile:
\* write_bytes opens the baseline file (truncating it), writes, and closes;
\* _save_visual_test_case follows.  No lock is taken.
update_baseline_open(visual_test_case, new_baseline_path) ==
    /\ inflight = Idle
    /\ ops < MaxOps
    /\ ops' = ops + 1
    /\ IF images[new_baseline_path] # Absent
       THEN /\ images' = [images EXCEPT ![visual_test_case.baseline_image_path] =
                                           Partial(images[new_baseline_path], 0)]
            /\ inflight' = [pc |-> "writing", visual_test_case |-> visual_test_case,
                            data |-> images[new_baseline_path]]
            /\ UNCHANGED last
       ELSE /\ last' = Raised("update", visual_test_case.test_case_id,
                               "New baseline image not found")
            /\ UNCHANGED <<images, inflight>>
    /\ UNCHANGED <<clock, json, held, history, probe>>

update_baseline_write ==
    /\ inflight.pc = "writing"
    /\ images' = [images EXCEPT ![inflight.visual_test_case.baseline_image_path] =
                                    Partial(inflight.data, 1)]
    /\ inflight' = [inflight EXCEPT !.pc = "closing"]
    /\ UNCHANGED <<clock, json, held, last, history, ops, probe>>

update_baseline_close ==
    /\ inflight.pc = "closing"
    /\ images' = [images EXCEPT ![inflight.visual_test_case.baseline_image_path] =
                                    inflight.data]
    /\ json' = save_visual_test_case(json, inflight.visual_test_case)
    /\ last' = Returned("update", inflight.visual_test_case.test_case_id, <<>>)
    /\ inflight' = Idle
    /\ UNCHANGED <<clock, held, history, ops, probe>>

NextConcurrent ==
    \/ Tick
    \/ \E id \in CaseIds, sel \in Selectors, d \in Descriptions, shot \in Screens :
            create_visual_test_case(id, sel, d, shot)
    \/ \E c \in held, shot \in Screens : run_visual_test(c, shot)
    \/ \E c \in held, p \in CallerPaths : update_baseline_open(c, p)
    \/ update_baseline_write
    \/ update_baseline_close

SpecConcurrent == Init /\ [][NextConcurrent]_vars

\* --------------------------------------- direct calls of the status rule
\* Bound on the length of a differences list handed to the rule.
MaxDiffs == 2
Severities == {"low", "medium", "high", "critical"}
\* The scores handed to the rule are the multiples of 1 / ScoreSteps.
ScoreSteps == 1000
Scores == {Ratio(n, ScoreSteps) : n \in 0..ScoreSteps}
RECURSIVE DiffLists(_)
DiffLists(n) ==
    IF n = 0 THEN {<<>>}
    ELSE DiffLists(n - 1) \cup
         {Append(l, VisualDifference("layout", Ratio(1, 1), FullFrame, sev)) :
             l \in {m \in DiffLists(n - 1) : Len(m) = n - 1}, sev \in Severities}

InitStatus ==
    /\ InitEngine
    /\ probe \in {[op |-> "status", difference_score |-> sc, differences |-> l,
                   status |-> "unset"] : sc \in Scores, l \in DiffLists(MaxDiffs)}

call_determine_test_status ==
    /\ probe.op = "status"
    /\ probe.status = "unset"
    /\ probe' = [probe EXCEPT !.status =
                    determine_test_status(probe.difference_score, probe.differences)]
    /\ UNCHANGED <<clock, images, json, held, last, history, ops, inflight>>

SpecStatus == InitStatus /\ [][call_determine_test_status]_vars
\* ------------------------------------- direct calls of _compare_images
Red == <<0, 0, 255>>
Blue == <<255, 0, 0>>
Gray200 == <<200, 200, 200>>
Colours == {White, Black, LightGray, Red, Blue}
\* Largest side of the blocks in the images compared.
MaxBlock == 3
\* Frames a given share of whose pixels differ from the rest: the shares
\* put the mean gray difference from the uniform frame at 0.15 (15 % white
\* on black) and just below it (19 % of gray 200 on black, 81 % blue on
\* red).
BoundaryFiles ==
    {ImageFile(CanonSize, Filled(Black, White, (15 * NPix) \div 100)),
     ImageFile(CanonSize, Filled(Black, Gray200, (19 * NPix) \div 100)),
     ImageFile(CanonSize, Filled(Red, Blue, (81 * NPix) \div 100))}
ProbeFiles ==
    {ImageFile(CanonSize, Block(bg, fg, k)) :
        bg \in Colours, fg \in Colours, k \in 0..MaxBlock}
    \cup BoundaryFiles
    \cup {ImageFile(1, Pixel(c)) : c \in Colours}
    \cup {Corrupt, Absent}
\* The baselines every file is compared with; every file is also compared
\* with itself.
ProbeBases ==
    {ImageFile(CanonSize, Solid(Black)),
     ImageFile(CanonSize, Solid(Red)),
     ImageFile(CanonSize, Block(Red, Black, MaxBlock))}
\* Pairs that put the colour score and the element score between the
\* detector's threshold and its severity cut-off: half against three
\* tenths of the frame white, and a block against the same block with a
\* pixel added off its corner.
SeverityPairs ==
    {<<ImageFile(CanonSize, Filled(Black, White, NPix \div 2)),
       ImageFile(CanonSize, Filled(Black, White, (3 * NPix) \div 10))>>,
     <<ImageFile(CanonSize, BlockAt(Black, White, 1, 1, 2)),
       ImageFile(CanonSize, Dotted(Black, White, 1, 1, 2))>>}
ProbePairs ==
    (ProbeBases \X ProbeFiles) \cup {<<f, f>> : f \in ProbeFiles} \cup SeverityPairs

InitCompare ==
    /\ InitEngine
    /\ probe \in {[op |-> "compare", baseline |-> x[1], current |-> x[2],
                   tolerance |-> DefaultTolerance, status |-> "unset",
                   difference_score |-> Ratio(0, 1), differences |-> <<>>] :
                     x \in ProbePairs}

\* _compare_images followed by _determine_test_status, as run_visual_test
\* calls them.
call_compare_images ==
    /\ probe.op = "compare"
    /\ probe.status = "unset"
    /\ LET compared == compare_images(probe.baseline, probe.current, probe.tolerance)
       IN  probe' = [probe EXCEPT
                        !.difference_score = compared.difference_score,
                        !.differences = compared.differences,
                        !.status = determine_test_status(compared.difference_score,
                                                         compared.differences)]
    /\ UNCHANGED <<clock, images, json, held, last, history, ops, inflight>>

SpecCompare == InitCompare /\ [][call_compare_images]_vars
\* ------------------------------ direct calls of _detect_content_changes
\* A uniform frame of colour bg is compared with the same frame holding an
\* N x N block of colour fg at (at, at), for N = 1, 2, ... in turn; reports
\* collects what the detector returns for each N.
BlockOffsets == {0, 1}
InitContent ==
    /\ InitEngine
    /\ probe \in {p \in {[op |-> "content", bg |-> bg, fg |-> fg, at |-> at,
                          reports |-> <<>>] :
                            bg \in Colours, fg \in Colours, at \in BlockOffsets} :
                     p.bg # p.fg}

call_detect_content_changes ==
    /\ probe.op = "content"
    /\ probe.at + Len(probe.reports) < CanonSize
    /\ probe' = [probe EXCEPT !.reports =
                    Append(@, detect_content_changes(
                                  Uniform(probe.bg),
                                  WithBlockAt(probe.bg, probe.fg, probe.at, probe.at,
                                              Len(probe.reports) + 1)))]
    /\ UNCHANGED <<clock, images, json, held, last, history, ops, inflight>>

SpecContent == InitContent /\ [][call_detect_content_changes]_vars
\* ---------------------------------------------------------------- claims
HasCritical(differences) ==
    \E k \in 1..Len(differences) : differences[k].severity = "critical"
\* The persisted result records, told from case metadata by their name.
IsResultFile(name) == Len(name) = 4 /\ name[2] = "_result_"
PersistedResults == {n \in DOMAIN json : IsResultFile(n)}
PersistedWithStatus(status) == {n \in PersistedResults : json[n].status = status}
One == Ratio(NPix * 255, NPix * 255)

\* C1: the status computed from a score and a differences list is pass
\* below 0.05; from 0.05 up to but excluding 0.15 it is fail when a
\* difference is critical and warning otherwise; from 0.15 on it is fail;
\* it is never anything but pass, warning or fail.
C1_VerdictRule ==
    (probe.op = "status" /\ probe.status # "unset") =>
        LET n == probe.difference_score.num * 100
            d == probe.difference_score.den
        IN  /\ probe.status \in {"pass", "warning", "fail"}
            /\ n < 5 * d => probe.status = "pass"
            /\ (5 * d <= n /\ n < 15 * d) =>
                   probe.status = IF HasCritical(probe.differences)
                                  THEN "fail" ELSE "warning"
            /\ n >= 15 * d => probe.status = "fail"
C1_Witness ==
    /\ probe.op = "status"
    /\ probe.status = "fail"
    /\ 5 * probe.difference_score.den <= probe.difference_score.num * 100
    /\ probe.difference_score.num * 100 < 15 * probe.difference_score.den
    /\ HasCritical(probe.differences)

\* C2: every run whose baseline or current image could not be loaded has
\* difference score 1.0, no differences and status fail, its result is
\* stored, and the call returned it.
C2_FailSafe ==
    \A k \in 1..Len(history) :
        LET h == history[k]
            name == ResultFileName(h.result.test_case_id, h.result.generated_at[1])
        IN  (h.baseline.kind # "image" \/ h.current.kind # "image") =>
                /\ h.result.difference_score = One
                /\ h.result.differences = <<>>
                /\ h.result.status = "fail"
                /\ name \in DOMAIN json
                /\ (k = Len(history) /\ last.op = "run" /\ last.outcome = "returned") =>
                       (last.value = h.result /\ json[name] = h.result)
C2_Witness ==
    /\ history # <<>>
    /\ history[Len(history)].baseline.kind # "image"
    /\ last.op = "run"
    /\ last.outcome = "returned"
    /\ last.value.status = "fail"

\* C3: no run reads the baseline file while update_baseline is writing it:
\* the file a comparison loads is a complete image file, the one before
\* the update or the one after.
C3_NoPartialBaseline ==
    \A k \in 1..Len(history) : history[k].stored.kind # "partial"

\* C4: comparing a decodable image with a byte-identical copy of itself
\* gives difference score 0, no differences and status pass.
C4_Identity ==
    (/\ probe.op = "compare"
     /\ probe.status # "unset"
     /\ probe.baseline = probe.current
     /\ probe.baseline.kind = "image") =>
        /\ probe.difference_score.num = 0
        /\ probe.differences = <<>>
        /\ probe.status = "pass"
C4_Witness ==
    /\ probe.op = "compare"
    /\ probe.status = "pass"
    /\ probe.baseline = probe.current
    /\ probe.baseline.kind = "image"
    /\ detectAndCompute(GrayImage(resize(imread(probe.baseline)))) # None

\* C5: two runs that loaded the same baseline image and the same current
\* image have the same difference score, the same differences in the same
\* order and the same status, whatever was called in between; and two runs
\* with the same score and the same severities have the same status.
SeveritiesOf(differences) == [k \in 1..Len(differences) |-> differences[k].severity]
C6_DuplicateRejected ==
    [][(/\ ops' = ops + 1
        /\ last'.op = "create"
        /\ CaseFileName(last'.id) \in DOMAIN json) =>
           /\ last'.outcome = "raised"
           /\ json'[CaseFileName(last'.id)] = json[CaseFileName(last'.id)]
           /\ images'[json[CaseFileName(last'.id)].baseline_image_path] =
                  images[json[CaseFileName(last'.id)].baseline_image_path]]_vars

\* C7 as stated: a run of a case whose baseline file is absent or cannot be
\* decoded ends in an error and yields no result.
C7_MissingBaselineRaises ==
    \A k \in 1..Len(history) : history[k].stored.kind = "image"
\* C7 as amended: such a run raises nothing; it returns a result with
\* difference score 1.0 and status fail, and the only error a run raises is
\* the failed capture.
C7_MissingBaselineFails ==
    /\ (/\ last.op = "run"
        /\ last.outcome = "returned"
        /\ history[Len(history)].stored.kind # "image") =>
           /\ last.value.status = "fail"
           /\ last.value.difference_score = One
    /\ (last.op = "run" /\ last.outcome = "raised") => last.shot = NoImage
    /\ (last.op = "run" /\ last.shot # NoImage) => last.outcome = "returned"
C7_Witness ==
    /\ last.op = "run"
    /\ last.outcome = "returned"
    /\ history[Len(history)].stored = Absent
    /\ last.value.status = "fail"

\* C8: a create or a run whose capture fails raises to the caller and
\* leaves every JSON file, every image file and the held cases as they were.
C8_CaptureFailurePersistsNothing ==
    [][(/\ ops' = ops + 1
        /\ last'.op \in {"create", "run"}
        /\ last'.shot = NoImage) =>
           /\ last'.outcome = "raised"
           /\ json' = json
           /\ images' = images
           /\ held' = held]_vars
C8_Witness ==
    /\ last.op = "run"
    /\ last.shot = NoImage
    /\ last.outcome = "raised"
    /\ PersistedResults # {}

\* C9: the counts get_visual_test_statistics returns are the numbers of
\* persisted results with each status, and the pass rate is the pass count
\* over their sum when there is a result.
C9_StatisticsCounts ==
    last.op = "statistics" =>
        /\ last.value.pass_count = Cardinality(PersistedWithStatus("pass"))
        /\ last.value.warning_count = Cardinality(PersistedWithStatus("warning"))
        /\ last.value.fail_count = Cardinality(PersistedWithStatus("fail"))
        /\ PersistedResults # {} =>
               /\ last.value.pass_rate.den = Cardinality(PersistedResults)
               /\ last.value.pass_rate.num = Cardinality(PersistedWithStatus("pass"))

\* C10: with no result persisted, get_visual_test_statistics returns the
\* statistics, not an error, with pass rate 0 and the three counts 0.
C10_StatisticsOfNoResults ==
    (last.op = "statistics" /\ PersistedResults = {}) =>
        /\ last.outcome = "returned"
        /\ last.value.kind = "statistics"
        /\ last.value.pass_rate.num = 0
        /\ last.value.pass_count = 0
        /\ last.value.warning_count = 0
        /\ last.value.fail_count = 0
C10_Witness ==
    /\ last.op = "statistics"
    /\ PersistedResults = {}
    /\ DOMAIN json # {}
    /\ last.value.pass_rate.num = 0

\* C11: the total case count get_visual_test_statistics returns is the
\* number of case metadata files stored; result records are not counted.
CaseFiles == {n \in DOMAIN json : ~IsResultFile(n)}
C11_TotalCaseCount ==
    last.op = "statistics" => last.value.total_test_cases = Cardinality(CaseFiles)

\* The two scores of a pair of decodable files, from the images themselves:
\* the content score (mean difference of the gray images) and the
\* aggregate score (mean gray of the difference of the colour images).
ContentScoreOf(baseline_file, current_file) ==
    mean255(absdiff_gray(GrayImage(resize(imread(baseline_file))),
                         GrayImage(resize(imread(current_file)))))
AggregateScoreOf(baseline_file, current_file) ==
    mean255(GrayImage(absdiff(resize(imread(baseline_file)),
                              resize(imread(current_file)))))
Compared ==
    /\ probe.op = "compare"
    /\ probe.status # "unset"
    /\ probe.baseline.kind = "image"
    /\ probe.current.kind = "image"
\* s = n / d, and n / d <= s.
ScoreIs(s, n, d) == s.num * d = n * s.den
ScoreAtLeast(s, n, d) == s.num * d >= n * s.den

\* C12 as stated: a comparison whose content score is exactly 0.15 has
\* status fail, and one whose content score is 0.149 (from 0.149 up to but
\* excluding 0.15) has status warning.
C12_ContentBoundary ==
    Compared =>
        LET s == ContentScoreOf(probe.baseline, probe.current)
        IN  /\ ScoreIs(s, 15, 100) => probe.status = "fail"
            /\ (ScoreAtLeast(s, 149, 1000) /\ ScoreLess(s, 15, 100)) =>
                   probe.status = "warning"
\* C12 as amended: the boundary is that of the aggregate score: a
\* comparison whose aggregate score is 0.15 or more (0.15 included) has
\* status fail, and one whose aggregate score is from 0.05 up to but
\* excluding 0.15 (0.149 included) has status warning, whatever the
\* content score.
C12_AggregateBoundary ==
    Compared =>
        LET s == AggregateScoreOf(probe.baseline, probe.current)
        IN  /\ ScoreAtLeast(s, 15, 100) => probe.status = "fail"
            /\ (ScoreAtLeast(s, 5, 100) /\ ScoreLess(s, 15, 100)) =>
                   probe.status = "warning"
C12_Witness ==
    /\ Compared
    /\ ScoreIs(AggregateScoreOf(probe.baseline, probe.current), 15, 100)
    /\ probe.status = "fail"
    /\ \A k \in 1..Len(probe.differences) :
           probe.differences[k].difference_type # "content"

\* The scenario's images at canonical size: the solid white frame, and the
\* white frame with the black square (NewBaseline).
WhiteScreen == ImageFile(CanonSize, Solid(White))
SquareBox == <<CanonSize \div 10, CanonSize \div 10, CanonSize \div 5, CanonSize \div 5>>
ContentDifferences(differences) ==
    {k \in 1..Len(differences) : differences[k].difference_type = "content"}
Near(box, target) == \A k \in 1..4 : Abs(box[k] - target[k]) <= 1

\* C13 as stated: a run comparing a white baseline with a white screenshot
\* passes; a run comparing the baseline with the black square against the
\* white screenshot has a content difference whose bounding box is about
\* the square, and status fail.
C13_ScenarioFails ==
    \A k \in 1..Len(history) :
        LET h == history[k]
        IN  /\ (h.baseline = WhiteScreen /\ h.current = WhiteScreen) =>
                   h.result.status = "pass"
            /\ (h.baseline = NewBaseline /\ h.current = WhiteScreen) =>
                   /\ h.result.status = "fail"
                   /\ \E d \in ContentDifferences(h.result.differences) :
                          Near(h.result.differences[d].bounding_box, SquareBox)
\* C13 as amended: the second run too passes: its score is the share of
\* the frame the square covers (4 %), below the pass threshold, and the
\* content detector reports nothing.
C13_ScenarioPasses ==
    \A k \in 1..Len(history) :
        LET h == history[k]
        IN  /\ (h.baseline = WhiteScreen /\ h.current = WhiteScreen) =>
                   h.result.status = "pass"
            /\ (h.baseline = NewBaseline /\ h.current = WhiteScreen) =>
                   /\ h.result.status = "pass"
                   /\ ScoreIs(h.result.difference_score,
                              (CanonSize \div 5) * (CanonSize \div 5), NPix)
                   /\ ScoreLess(h.result.difference_score, ThresholdPass, 100)
                   /\ ContentDifferences(h.result.differences) = {}
C13_Witness ==
    /\ last.op = "run"
    /\ last.id = "TC-1"
    /\ last.outcome = "returned"
    /\ last.shot = WhiteScreen
    /\ history[Len(history)].stored = NewBaseline
    /\ history[Len(history)].baseline = NewBaseline
    /\ history[Len(history)].current = WhiteScreen
    /\ last.value.status = "pass"
    /\ CaseFileName("TC-1") \in DOMAIN json

\* What the detector returned for the block of side n, and the score the
\* block has: its share of the frame times the gray difference of the two
\* colours.
Reported(n) == probe.reports[n] # <<>>
ReportOf(n) == probe.reports[n][1]
BlockScore(n) ==
    Ratio(n * n * Abs(cvtColor_gray(probe.bg) - cvtColor_gray(probe.fg)), NPix * 255)

\* C14 as stated: the detector reports a content difference for every
\* block size, the reported score strictly increases with the size, and
\* the bounding box is about the block.
C14_EveryBlockReported ==
    probe.op = "content" =>
        /\ \A n \in 1..Len(probe.reports) : Reported(n)
        /\ \A n \in 1..Len(probe.reports) :
               Near(ReportOf(n).bounding_box, <<probe.at, probe.at, n, n>>)
        /\ \A m, n \in 1..Len(probe.reports) :
               m < n => ScoreLess(ReportOf(m).confidence,
                                  ReportOf(n).confidence.num,
                                  ReportOf(n).confidence.den)
\* C14 as amended: the detector reports a content difference exactly for
\* the block sizes whose score exceeds 0.15, hence for every size from the
\* first reported one on; the reported score is the block's score and
\* strictly increases with the size; the bounding box is the block.
C14_LargeBlocksReported ==
    probe.op = "content" =>
        /\ \A n \in 1..Len(probe.reports) :
               /\ Reported(n) <=> ScoreGreater(BlockScore(n), tolerance_content, 100)
               /\ Reported(n) =>
                      /\ ReportOf(n).difference_type = "content"
                      /\ ReportOf(n).confidence = BlockScore(n)
                      /\ ReportOf(n).bounding_box = <<probe.at, probe.at, n, n>>
        /\ \A m, n \in 1..Len(probe.reports) :
               (m < n /\ Reported(m)) =>
                   /\ Reported(n)
                   /\ ReportOf(m).confidence.num < ReportOf(n).confidence.num
C14_Witness ==
    /\ probe.op = "content"
    /\ Len(probe.reports) >= 3
    /\ ~Reported(1)
    /\ Reported(Len(probe.reports) - 1)
    /\ Reported(Len(probe.reports))
    /\ probe.at > 0

\* C15: the differences of a comparison hold at most one difference of
\* each type, in the order layout, color, content, element, and so at most
\* four entries.
DetectorRank(difference_type) ==
    CASE difference_type = "layout" -> 1
      [] difference_type = "color" -> 2
      [] difference_type = "content" -> 3
      [] difference_type = "element" -> 4
      [] OTHER -> 0
C15_DifferencesOrdered ==
    (probe.op = "compare" /\ probe.status # "unset") =>
        /\ Len(probe.differences) <= 4
        /\ \A k \in 1..Len(probe.differences) :
               DetectorRank(probe.differences[k].difference_type) > 0
        /\ \A j, k \in 1..Len(probe.differences) :
               j < k => DetectorRank(probe.differences[j].difference_type)
                          < DetectorRank(probe.differences[k].difference_type)
C15_Witness ==
    /\ probe.op = "compare"
    /\ probe.status # "unset"
    /\ Len(probe.differences) = 4

\* C16: the confidence of every difference a comparison reports is from 0
\* to 1 inclusive: the scores num/den of the layout, content and element
\* detectors, and 1 - corr of the colour detector, which is at most 1 when
\* corr is not negative and at least 0 when corr is at most 1.
ConfidenceInRange(difference) ==
    IF difference.difference_type = "color"
    THEN LET c == difference.confidence.one_minus
         IN  /\ c.corr_num >= 0
             /\ c.corr_num > 0 =>
                    ~FracLess(c.corr_den1, c.corr_num, c.corr_num, c.corr_den2)
    ELSE /\ 0 <= difference.confidence.num
         /\ difference.confidence.num <= difference.confidence.den
C16_ConfidenceInRange ==
    (probe.op = "compare" /\ probe.status # "unset") =>
        \A k \in 1..Len(probe.differences) : ConfidenceInRange(probe.differences[k])

\* C17: every difference a comparison reports has severity low, medium or
\* high, never critical; and every comparison whose score is from 0.05 up
\* to but excluding 0.15 has status warning.
C17_NoCriticalSeverity ==
    (probe.op = "compare" /\ probe.status # "unset") =>
        /\ \A k \in 1..Len(probe.differences) :
               probe.differences[k].severity \in {"low", "medium", "high"}
        /\ ~HasCritical(probe.differences)
        /\ (/\ ScoreAtLeast(probe.difference_score, ThresholdPass, 100)
            /\ ScoreLess(probe.difference_score, ThresholdWarning, 100)) =>
               probe.status = "warning"
C17_Witness ==
    /\ probe.op = "compare"
    /\ probe.status = "warning"
    /\ \E k \in 1..Len(probe.differences) : probe.differences[k].severity = "high"

\* C18: every run that returned a result added one result record and no
\* record was overwritten or removed since: for each case, as many result
\* records are stored as runs of it have returned.
RunsOf(test_case_id) ==
    {k \in 1..Len(history) : history[k].result.test_case_id = test_case_id}
ResultsOf(test_case_id) == {n \in PersistedResults : n[1] = test_case_id}
C18_ResultsAppendOnly ==
    \A id \in CaseIds : Cardinality(ResultsOf(id)) = Cardinality(RunsOf(id))

\* C19: no two stored cases with different ids name the same baseline
\* image file.
C19_BaselineExclusive ==
    \A m, n \in CaseFiles :
        json[m].test_case_id # json[n].test_case_id =>
            json[m].baseline_image_path # json[n].baseline_image_path

\* C20: a run leaves the metadata file of every stored case and the
\* baseline image file each of them names as they were.
C20_RunKeepsBaselines ==
    [][(ops' = ops + 1 /\ last'.op = "run") =>
           \A n \in CaseFiles :
               /\ n \in DOMAIN json'
               /\ json'[n] = json[n]
               /\ images'[json[n].baseline_image_path] =
                      images[json[n].baseline_image_path]]_vars

\* C21: an update_baseline of one case leaves the metadata file of every
\* stored case with another id, and the baseline image file it names, as
\* they were.
C21_UpdateKeepsOtherCases ==
    [][(ops' = ops + 1 /\ last'.op = "update") =>
           \A n \in CaseFiles :
               json[n].test_case_id # last'.id =>
                   /\ n \in DOMAIN json'
                   /\ json'[n] = json[n]
                   /\ images'[json[n].baseline_image_path] =
                          images[json[n].baseline_image_path]]_vars

\* C22: the run of a case that follows a successful update_baseline of that
\* case compares against the image the update stored as its baseline.
C22_RunUsesUpdatedBaseline ==
    [][(/\ last.op = "update" /\ last.outcome = "returned"
        /\ ops' = ops + 1
        /\ last'.op = "run" /\ last'.outcome = "returned" /\ last'.id = last.id) =>
           history'[Len(history')].baseline =
               images[last'.value.baseline_image_path]]_vars

\* ------------------- _detect_differences, one detector call after another
\* The comparison of a run as its detector calls proceed.  A detector call
\* returns what the detector computes, or raises inside the detector (its
\* handler logs and the detector returns None), or does not return: no
\* timeout is set on it.  at is the position of the next detector, failed
\* the detectors that raised so far.
DetectorNames == <<"layout", "color", "content", "element">>
call_detector(name, baseline, current) ==
    CASE name = "layout" -> detect_layout_changes(baseline, current)
      [] name = "color" -> detect_color_changes(baseline, current)
      [] name = "content" -> detect_content_changes(baseline, current)
      [] name = "element" -> detect_element_changes(baseline, current)

DetectPairs ==
    {<<ImageFile(CanonSize, Solid(Black)), ImageFile(CanonSize, Solid(Black))>>,
     <<ImageFile(CanonSize, Solid(Black)), ImageFile(CanonSize, Solid(White))>>,
     <<ImageFile(CanonSize, Block(Red, Black, MaxBlock)),
       ImageFile(CanonSize, Block(LightGray, White, 1))>>}

NoResult == <<>>
InitDetect ==
    /\ InitEngine
    /\ probe \in {[op |-> "detect", baseline |-> x[1], current |-> x[2],
                   at |-> 1, failed |-> {}, blocked |-> FALSE,
                   differences |-> <<>>, result |-> NoResult] : x \in DetectPairs}

detector_returns ==
    /\ probe.op = "detect"
    /\ ~probe.blocked
    /\ probe.at <= Len(DetectorNames)
    /\ probe' = [probe EXCEPT
                    !.differences = @ \o call_detector(DetectorNames[probe.at],
                                          resize(imread(probe.baseline)),
                                          resize(imread(probe.current))),
                    !.at = @ + 1]
    /\ UNCHANGED <<clock, images, json, held, last, history, ops, inflight>>

detector_raises ==
    /\ probe.op = "detect"
    /\ ~probe.blocked
    /\ probe.at <= Len(DetectorNames)
    /\ probe' = [probe EXCEPT !.failed = @ \cup {DetectorNames[probe.at]},
                              !.at = @ + 1]
    /\ UNCHANGED <<clock, images, json, held, last, history, ops, inflight>>

detector_hangs ==
    /\ probe.op = "detect"
    /\ ~probe.blocked
    /\ probe.at <= Len(DetectorNames)
    /\ probe' = [probe EXCEPT !.blocked = TRUE]
    /\ UNCHANGED <<clock, images, json, held, last, history, ops, inflight>>

\* The rest of run_visual_test once _detect_differences has returned: the
\* score, the status, the result and its file.
detect_persist ==
    /\ probe.op = "detect"
    /\ probe.at > Len(DetectorNames)
    /\ probe.result = NoResult
    /\ LET difference_score ==
               mean255(GrayImage(absdiff(resize(imread(probe.baseline)),
                                         resize(imread(probe.current)))))
           result ==
               [test_case_id |-> "TC-1",
                baseline_image_path |-> ScreenshotPath("None", 0),
                current_image_path |-> ScreenshotPath("None", clock),
                difference_score |-> difference_score,
                differences |-> probe.differences,
                status |-> determine_test_status(difference_score, probe.differences),
                generated_at |-> <<clock, ops>>]
       IN  /\ probe' = [probe EXCEPT !.result = result]
           /\ json' = save_visual_test_result(json, result)
    /\ UNCHANGED <<clock, images, held, last, history, ops, inflight>>

NextDetect ==
    \/ detector_returns
    \/ detector_raises
    \/ detector_hangs
    \/ detect_persist

SpecDetect == InitDetect /\ [][NextDetect]_vars

\* C23: the result of a run in which a detector failed records the
\* degradation: it is not the result the same comparison gives when every
\* detector returns.
UndegradedResult ==
    LET compared == compare_images(probe.baseline, probe.current, DefaultTolerance)
    IN  [probe.result EXCEPT
            !.differences = compared.differences,
            !.status = determine_test_status(compared.difference_score,
                                             compared.differences)]
C23_DegradationRecorded ==
    (probe.op = "detect" /\ probe.result # NoResult /\ probe.failed # {}) =>
        probe.result # UndegradedResult

\* ------------------------ direct calls of _determine_compliance_level
\* compliance_validator.py.  A ComplianceCheck is reduced to the two fields
\* the rule reads; the score is a percentage, a multiple of
\* 100 / ScoreSteps.
FullScore == 90
PartialScore == 70

\* The rule looking at the score before the critical failures.
determine_compliance_level_score_first(score, checks) ==
    IF checks = <<>> THEN "not_applicable"
    ELSE IF ScoreAtLeast(score, FullScore, 1) THEN "fully_compliant"
    ELSE IF \E k \in 1..Len(checks) :
                checks[k].result = "fail" /\ checks[k].severity = "critical"
    THEN "non_compliant"
    ELSE IF ScoreAtLeast(score, PartialScore, 1) THEN "partially_compliant"
    ELSE "non_compliant"

\* ComplianceValidator._determine_compliance_level
determine_compliance_level(score, checks) ==
    IF checks = <<>> THEN "not_applicable"
    ELSE LET critical_failures ==
                 SelectSeq(checks, LAMBDA check :
                     check.result = "fail" /\ check.severity = "critical")
         IN  IF critical_failures # <<>> THEN "non_compliant"
             ELSE IF ScoreAtLeast(score, FullScore, 1) THEN "fully_compliant"
             ELSE IF ScoreAtLeast(score, PartialScore, 1) THEN "partially_compliant"
             ELSE "non_compliant"

\* Bound on the number of checks handed to the rule.
MaxChecks == 2
ComplianceChecks ==
    {[result |-> r, severity |-> s] :
        r \in {"pass", "fail", "warning"}, s \in {"high", "critical"}}
RECURSIVE CheckLists(_)
CheckLists(n) ==
    IF n = 0 THEN {<<>>}
    ELSE CheckLists(n - 1) \cup
         {Append(l, c) : l \in {m \in CheckLists(n - 1) : Len(m) = n - 1},
                         c \in ComplianceChecks}
ComplianceScores == {Ratio(100 * n, ScoreSteps) : n \in 0..ScoreSteps}

InitCompliance ==
    /\ InitEngine
    /\ probe \in {[op |-> "compliance", score |-> sc, checks |-> l,
                   level |-> "unset"] :
                     sc \in ComplianceScores, l \in CheckLists(MaxChecks)}

call_determine_compliance_level ==
    /\ probe.op = "compliance"
    /\ probe.level = "unset"
    /\ probe' = [probe EXCEPT !.level =
                    determine_compliance_level(probe.score, probe.checks)]
    /\ UNCHANGED <<clock, images, json, held, last, history, ops, inflight>>

SpecCompliance == InitCompliance /\ [][call_determine_compliance_level]_vars

\* C24: for a non-empty list of checks the level is non_compliant whenever
\* a check has result fail with severity critical, whatever the score;
\* otherwise it is fully_compliant for a score of 90 or more,
\* partially_compliant for a score from 70 up to but excluding 90, and
\* non_compliant for a score below 70.
CriticalFailure(checks) ==
    \E k \in 1..Len(checks) :
        checks[k].result = "fail" /\ checks[k].severity = "critical"
C24_ComplianceLevel ==
    (probe.op = "compliance" /\ probe.level # "unset" /\ probe.checks # <<>>) =>
        /\ CriticalFailure(probe.checks) => probe.level = "non_compliant"
        /\ ~CriticalFailure(probe.checks) =>
               /\ ScoreAtLeast(probe.score, 90, 1) => probe.level = "fully_compliant"
               /\ (ScoreAtLeast(probe.score, 70, 1) /\ ScoreLess(probe.score, 90, 1)) =>
                      probe.level = "partially_compliant"
               /\ ScoreLess(probe.score, 70, 1) => probe.level = "non_compliant"
C24_Witness ==
    /\ probe.op = "compliance"
    /\ probe.level = "non_compliant"
    /\ CriticalFailure(probe.checks)
    /\ ScoreAtLeast(probe.score, 90, 1)

\* The scores of the other detectors for a pair of decodable files, from
\* the images themselves: the edge score, the histogram correlation, and
\* the distances of the matched key points (None when an image has no key
\* point: the element detector then has no score).
LayoutScoreOf(baseline_file, current_file) ==
    mean255(absdiff_gray(Canny(GrayImage(resize(imread(baseline_file))), 50, 150),
                         Canny(GrayImage(resize(imread(current_file))), 50, 150)))
CorrelationOf(baseline_file, current_file) ==
    compareHist_correl(resize(imread(baseline_file)), resize(imread(current_file)))
MatchesOf(baseline_file, current_file) ==
    LET des1 == detectAndCompute(GrayImage(resize(imread(baseline_file))))
        des2 == detectAndCompute(GrayImage(resize(imread(current_file))))
    IN  IF des1 # None /\ des2 # None THEN <<BFMatch(des1, des2)>> ELSE None
ElementScoreOf(matches) ==
    IF matches = <<>> THEN Ratio(1, 1)
    ELSE Ratio(Cardinality({k \in 1..Len(matches) : matches[k] >= 50}), Len(matches))
DifferencesOfType(differences, type) ==
    SelectSeq(differences, LAMBDA d : d.difference_type = type)

\* C25: a detector whose score is equal to or below its threshold (layout
\* 0.10, colour 0.05, content 0.15, element 0.20) reports no difference,
\* and the confidence of every reported difference is above the threshold
\* of its type.
C25_StrictThresholds ==
    Compared =>
        /\ ~ScoreGreater(LayoutScoreOf(probe.baseline, probe.current), 10, 100) =>
               DifferencesOfType(probe.differences, "layout") = <<>>
        /\ ~OneMinusCorrGreater(CorrelationOf(probe.baseline, probe.current), 5) =>
               DifferencesOfType(probe.differences, "color") = <<>>
        /\ ~ScoreGreater(ContentScoreOf(probe.baseline, probe.current), 15, 100) =>
               DifferencesOfType(probe.differences, "content") = <<>>
        /\ LET found == MatchesOf(probe.baseline, probe.current)
           IN  (found = None \/ ~ScoreGreater(ElementScoreOf(found[1]), 20, 100)) =>
                   DifferencesOfType(probe.differences, "element") = <<>>
        /\ \A k \in 1..Len(probe.differences) :
               LET d == probe.differences[k]
               IN  CASE d.difference_type = "layout" ->
                            ScoreGreater(d.confidence, 10, 100)
                     [] d.difference_type = "color" ->
                            OneMinusCorrGreater(d.confidence.one_minus, 5)
                     [] d.difference_type = "content" ->
                            ScoreGreater(d.confidence, 15, 100)
                     [] d.difference_type = "element" ->
                            ScoreGreater(d.confidence, 20, 100)
C25_Witness ==
    /\ Compared
    /\ ScoreIs(ContentScoreOf(probe.baseline, probe.current), 15, 100)
    /\ DifferencesOfType(probe.differences, "content") = <<>>
    /\ probe.differences # <<>>

\* C26: the severity of every reported difference follows the rule of its
\* detector: layout high above 0.30 else medium, colour medium above 0.10
\* else low, content high above 0.30 else medium, element high above 0.40
\* else medium; so no colour difference is high and no layout, content or
\* element difference is low.
SeverityByRule(difference) ==
    CASE difference.difference_type = "layout" ->
             IF ScoreGreater(difference.confidence, 30, 100) THEN "high" ELSE "medium"
      [] difference.difference_type = "color" ->
             IF OneMinusCorrGreater(difference.confidence.one_minus, 10)
             THEN "medium" ELSE "low"
      [] difference.difference_type = "content" ->
             IF ScoreGreater(difference.confidence, 30, 100) THEN "high" ELSE "medium"
      [] difference.difference_type = "element" ->
             IF ScoreGreater(difference.confidence, 40, 100) THEN "high" ELSE "medium"
C26_SeverityRules ==
    (probe.op = "compare" /\ probe.status # "unset") =>
        \A k \in 1..Len(probe.differences) :
            LET d == probe.differences[k]
            IN  /\ d.severity = SeverityByRule(d)
                /\ d.difference_type = "color" => d.severity # "high"
                /\ d.difference_type # "color" => d.severity # "low"
C26_Witness ==
    /\ probe.op = "compare"
    /\ probe.status # "unset"
    /\ \E k \in 1..Len(probe.differences) :
           /\ probe.differences[k].difference_type = "color"
           /\ probe.differences[k].severity = "low"
    /\ \E k \in 1..Len(probe.differences) :
           probe.differences[k].severity \in {"medium", "high"}

\* ------------- direct calls of _compare_images with several tolerances
\* The same pair of files is compared once for each tolerance a case can
\* carry (in hundredths); results collects what run_visual_test makes of
\* each comparison.
Tolerances == {0, DefaultTolerance, 50}
TolerancePairs ==
    (ProbeBases \X (BoundaryFiles \cup ProbeBases \cup {Corrupt})) \cup SeverityPairs
InitTolerance ==
    /\ InitEngine
    /\ probe \in {[op |-> "tolerance", baseline |-> x[1], current |-> x[2],
                   results |-> <<>>] : x \in TolerancePairs}

call_compare_images_with(tolerance) ==
    /\ probe.op = "tolerance"
    /\ \A k \in 1..Len(probe.results) : probe.results[k].tolerance # tolerance
    /\ LET compared == compare_images(probe.baseline, probe.current, tolerance)
       IN  probe' = [probe EXCEPT !.results = Append(@,
                        [tolerance |-> tolerance,
                         difference_score |-> compared.difference_score,
                         differences |-> compared.differences,
                         status |-> determine_test_status(compared.difference_score,
                                                          compared.differences)])]
    /\ UNCHANGED <<clock, images, json, held, last, history, ops, inflight>>

NextTolerance == \E tolerance \in Tolerances : call_compare_images_with(tolerance)

SpecTolerance == InitTolerance /\ [][NextTolerance]_vars

\* C27: comparisons of the same two files under different tolerances give
\* the same difference_score, the same differences and the same status.
C27_ToleranceIgnored ==
    probe.op = "tolerance" =>
        \A j, k \in 1..Len(probe.results) :
            /\ probe.results[j].difference_score = probe.results[k].difference_score
            /\ probe.results[j].differences = probe.results[k].differences
            /\ probe.results[j].status = probe.results[k].status
C27_Witness ==
    /\ probe.op = "tolerance"
    /\ \E j, k \in 1..Len(probe.results) :
           /\ ScoreGreater(probe.results[j].difference_score,
                           probe.results[j].tolerance, 100)
           /\ ~ScoreGreater(probe.results[k].difference_score,
                            probe.results[k].tolerance, 100)
           /\ probe.results[k].status = "fail"
           /\ probe.results[k].differences # <<>>

\* C28: a comparison that reports a content difference has an aggregate
\* score of 0.05 or more, hence a status other than pass.
C28_ContentNeverPasses ==
    (Compared /\ DifferencesOfType(probe.differences, "content") # <<>>) =>
        /\ ScoreAtLeast(probe.difference_score, 5, 100)
        /\ ScoreAtLeast(AggregateScoreOf(probe.baseline, probe.current), 5, 100)
        /\ probe.status # "pass"
C28_Witness ==
    /\ Compared
    /\ DifferencesOfType(probe.differences, "content") # <<>>
    /\ probe.status = "fail"
    /\ DifferencesOfType(probe.differences, "content")[1].confidence
           # probe.difference_score

\* ------------------------------------- creations and baseline updates only
\* The engine when its callers create cases and update baselines and run
\* nothing.
NextUpdate ==
    \/ Tick
    \/ \E id \in CaseIds, sel \in Selectors, d \in Descriptions,
          shot \in Screens \cup {NoImage} :
            create_visual_test_case(id, sel, d, shot)
    \/ \E c \in held, p \in CallerPaths : update_baseline(c, p)

SpecUpdate == Init /\ [][NextUpdate]_vars

MaxElements == 3
ElementIds == {"None", "visual_1"}
PageElementDicts == {[id |-> id, selector |-> sel] : id \in ElementIds, sel \in Selectors}
RECURSIVE ElementLists(_)
ElementLists(n) ==
    IF n = 0 THEN {<<>>}
    ELSE ElementLists(n - 1) \cup
         {Append(l, e) : l \in {m \in ElementLists(n - 1) : Len(m) = n - 1},
                         e \in PageElementDicts}
\* What the driver delivers for an element: a screen, or nothing.
GenerateShots == {ImageFile(CanonSize, Solid(White)), NoImage}

InitGenerate ==
    /\ InitEngine
    /\ probe \in {[op |-> "generate", page_elements |-> l, at |-> 1,
                   visual_test_cases |-> <<>>, outcomes |-> <<>>] :
                     l \in ElementLists(MaxElements)}

\* f"visual_{len(visual_test_cases)}"
default_id(visual_test_cases) == "visual_" \o ToString(Len(visual_test_cases))

\* The loop body giving the default id by the element's position in
\* page_elements.
generate_element_by_position(shot) ==
    LET element == probe.page_elements[probe.at]
        test_case_id == IF element.id # "None" THEN element.id
                        ELSE "visual_" \o ToString(probe.at - 1)
        visual_test_case ==
            [test_case_id |-> test_case_id,
             element_selector |-> element.selector,
             element_type |-> "generic",
             baseline_image_path |-> capture_path(element.selector, shot),
             tolerance |-> DefaultTolerance,
             description |-> "Visual test case",
             created_at |-> <<clock, ops>>]
    IN  /\ probe.op = "generate"
        /\ probe.at <= Len(probe.page_elements)
        /\ ops' = ops + 1
        /\ images' = capture_files(images, element.selector, shot)
        /\ IF shot = NoImage
           THEN /\ probe' = [probe EXCEPT !.at = @ + 1,
                                          !.outcomes = Append(@, "failed")]
                /\ UNCHANGED <<json, held>>
           ELSE /\ json' = save_visual_test_case(json, visual_test_case)
                /\ held' = held \cup {visual_test_case}
                /\ probe' = [probe EXCEPT
                                !.at = @ + 1,
                                !.outcomes = Append(@, "created"),
                                !.visual_test_cases = Append(@, visual_test_case)]
        /\ UNCHANGED <<clock, last, history, inflight>>

\* One pass of the loop body: create_visual_test_case for the element; an
\* exception it raises is logged and the loop goes on.
generate_element(shot) ==
    LET element == probe.page_elements[probe.at]
        test_case_id == IF element.id # "None" THEN element.id
                        ELSE default_id(probe.visual_test_cases)
        visual_test_case ==
            [test_case_id |-> test_case_id,
             element_selector |-> element.selector,
             element_type |-> "generic",
             baseline_image_path |-> capture_path(element.selector, shot),
             tolerance |-> DefaultTolerance,
             description |-> "Visual test case",
             created_at |-> <<clock, ops>>]
    IN  /\ probe.op = "generate"
        /\ probe.at <= Len(probe.page_elements)
        /\ ops' = ops + 1
        /\ images' = capture_files(images, element.selector, shot)
        /\ IF shot = NoImage
           THEN /\ probe' = [probe EXCEPT !.at = @ + 1,
                                          !.outcomes = Append(@, "failed")]
                /\ UNCHANGED <<json, held>>
           ELSE /\ json' = save_visual_test_case(json, visual_test_case)
                /\ held' = held \cup {visual_test_case}
                /\ probe' = [probe EXCEPT
                                !.at = @ + 1,
                                !.outcomes = Append(@, "created"),
                                !.visual_test_cases = Append(@, visual_test_case)]
        /\ UNCHANGED <<clock, last, history, inflight>>

\* return visual_test_cases
generate_return ==
    /\ probe.op = "generate"
    /\ probe.at = Len(probe.page_elements) + 1
    /\ last = NoCall
    /\ last' = Returned("generate", "", probe.visual_test_cases)
    /\ UNCHANGED <<clock, images, json, held, history, ops, inflight, probe>>

NextGenerate ==
    \/ Tick
    \/ \E shot \in GenerateShots : generate_element(shot)
    \/ generate_return

SpecGenerate == InitGenerate /\ [][NextGenerate]_vars

\* C30: the call returns, without raising, one case for each element whose
\* creation succeeded and none for the others, in the order of the
\* elements; every element is attempted, whatever became of those before
\* it; the case of an element without id has the id visual_<number of
\* cases created before it>; and when no element gives an id the ids of
\* the returned cases are pairwise distinct.
CreatedBefore(i) == Cardinality({j \in 1..(i - 1) : probe.outcomes[j] = "created"})
C30_OneCasePerCreatedElement ==
    (probe.op = "generate" /\ last.op = "generate") =>
        /\ last.outcome = "returned"
        /\ Len(probe.outcomes) = Len(probe.page_elements)
        /\ Len(last.value) = CreatedBefore(Len(probe.page_elements) + 1)
        /\ \A i \in 1..Len(probe.page_elements) :
               probe.outcomes[i] = "created" =>
                   LET case == last.value[CreatedBefore(i) + 1]
                       element == probe.page_elements[i]
                   IN  /\ case.element_selector = element.selector
                       /\ case.test_case_id =
                              IF element.id # "None" THEN element.id
                              ELSE "visual_" \o ToString(CreatedBefore(i))
        /\ (\A i \in 1..Len(probe.page_elements) : probe.page_elements[i].id = "None") =>
               \A j, k \in 1..Len(last.value) :
                   j # k => last.value[j].test_case_id # last.value[k].test_case_id
C30_Witness ==
    /\ probe.op = "generate"
    /\ last.op = "generate"
    /\ \A i \in 1..Len(probe.page_elements) : probe.page_elements[i].id = "None"
    /\ Len(probe.outcomes) = 3
    /\ probe.outcomes[1] = "failed"
    /\ Len(last.value) = 2
====
